---- MODULE Spec2Model ----
(***************************************************************************)
(* BTP4AI Wire publisher (src/app.py): the publication pipeline            *)
(* publish_once() against the GitHub Contents API, run by two callers (the *)
(* scheduler thread and POST /action/run-now), and the scheduler's delay   *)
(* computation seconds_until_next_run().                                   *)
(*                                                                         *)
(* Time is counted in ticks of 1/TicksPerSec second since a Monday 00:00   *)
(* UTC.  A store path is a pair <<kind, index>>; a file's content is a     *)
(* record; the revision token ("sha") of a file is its content, as the     *)
(* Contents API's blob sha is a hash of the content.                       *)
(***************************************************************************)
EXTENDS Integers, Sequences, FiniteSets, TLC

VARIABLES
    cfg,        \* the environment configuration read at import (lines 28-46)
    now,        \* the current instant, in ticks (datetime.now(timezone.utc))
    store,      \* the remote repository: path -> content, or Absent
    proc,       \* per caller: the position and locals of its publish_once()
    faultsLeft, \* error responses the store may still give
    calls,      \* publish_once() calls started so far
    cardWrites, \* per slug: PUTs of docs/cards/<slug>.json the store accepted
    partial,    \* slugs whose card a call wrote before it failed
    ret,        \* what seconds_until_next_run() returned last
    loop,       \* the scheduler thread: its position in scheduler_loop
    render,     \* generate_feed() called on a slug list: position and locals
    research    \* ai_research_items(): what the research call gave, and its return

vars == <<cfg, now, store, proc, faultsLeft, calls, cardWrites, partial, ret, loop, render, research>>

-----------------------------------------------------------------------------
(* Bounds of the model *)

\* ticks per second: the clock's resolution (the code's is a microsecond)
TicksPerSec == 2
\* ISO weeks the clock may run through after week 0
MaxWeek == 1
\* seconds the clock may advance inside one week
MaxSecs == 1
\* error responses the store may give in one behaviour
MaxFaults == 1
\* publish_once() calls in one behaviour
MaxCalls == 2
\* distinct item lists ai_research_items may return
MaxVariants == 2
\* ticks the clock may stand past a whole second when the delay is computed
MaxTicks == 1
\* ticks by which time.sleep may return late
MaxOver == 1
\* ticks that may pass inside one call the scheduler thread makes, of
\* seconds_until_next_run or of publish_once
MaxSpent == 1
\* length of the slug lists passed to generate_feed
MaxLen == 3
\* calls of generate_feed on one slug list
MaxRenders == 2
\* length of the item list the research call may give
MaxItems == 4

-----------------------------------------------------------------------------
(* Local time: ZoneInfo(LOCAL_TZ), astimezone, isocalendar, weekday *)

SecTicks == TicksPerSec
MinuteTicks == 60 * SecTicks
HourTicks == 60 * MinuteTicks
DayTicks == 24 * HourTicks
WeekTicks == 7 * DayTicks

\* The zone's one offset change in the modelled span: Sunday of week 0 at
\* 01:00 UTC, the instant Europe/Paris changes its offset.
DstAt == 6 * DayTicks + HourTicks

Zones == {"fixed", "spring", "fall"}

\* the zone's UTC offset before and after DstAt
OffsetBefore(zone) == IF zone = "fall" THEN 2 * HourTicks ELSE HourTicks
OffsetAfter(zone) == IF zone = "spring" THEN 2 * HourTicks ELSE HourTicks

\* utcoffset() at a UTC instant
UtcOffset(zone, u) == IF u < DstAt THEN OffsetBefore(zone) ELSE OffsetAfter(zone)

\* now_utc.astimezone(tz): the wall-clock reading, in ticks since the epoch
ToLocal(zone, u) == u + UtcOffset(zone, u)

\* target.astimezone(timezone.utc) of a wall-clock reading with fold = 0:
\* zoneinfo takes the offset before the change for every reading below
\* (change + the larger offset), the offset after it from there on.
WallToUtc(zone, w) ==
    IF w < DstAt + 2 * HourTicks THEN w - OffsetBefore(zone)
    ELSE w - OffsetAfter(zone)

\* dt_local.weekday(): 0 = Monday
Weekday(w) == (w \div DayTicks) % 7

\* dt_local.isocalendar() -> f"{year}-W{week:02d}": the ISO week, numbered
\* from the epoch's week; the order of the numbers is the order of the strings
current_week_slug(w) == w \div WeekTicks

-----------------------------------------------------------------------------
(* The store's paths and contents *)

Callers == {"sched", "manual"}
Variants == 1..MaxVariants

\* -1 is a card left by an earlier publisher (an older slug), 0.. the weeks
Slugs == (-1)..MaxWeek

KeepDocs == <<"keep", 1>>
KeepCards == <<"keep", 2>>
Latest == <<"latest", 0>>
FeedRss == <<"rss", 0>>
FeedXml == <<"xml", 0>>
CardPath(s) == <<"card", s>>

Paths == {KeepDocs, KeepCards, Latest, FeedRss, FeedXml} \cup {CardPath(s) : s \in Slugs}

\* no file at the path (github_get returns None on 404)
Absent == [kind |-> "absent", slug |-> 0, var |-> 0, stamp |-> 0, entries |-> <<>>]
\* b"": the placeholder files' content
EmptyBytes == [kind |-> "empty", slug |-> 0, var |-> 0, stamp |-> 0, entries |-> <<>>]
\* json.dumps(card).encode(): the card of slug s built from item list v; the
\* card's text carries the week's label, which the slug determines
CardBytes(s, v) == [kind |-> "card", slug |-> s, var |-> v, stamp |-> 0, entries |-> <<>>]

\* hashlib.sha1(f"{slug}.json").hexdigest(): the digest, named by its input
Sha1OfName(s) == <<"sha1", s>>

\* get_card_json_text_b64 on what the GET returned: the stored card's item
\* list, or 0 for the "{}" placeholder when there is no file
CardTextOf(content) == IF content.kind = "card" THEN content.var ELSE 0

\* a faulty item, for comparison: the identifier is taken from the card text
FeedEntryGuidOfCard(s, content) ==
    [slug |-> s, guid |-> <<"sha1", CardTextOf(content)>>, var |-> CardTextOf(content)]

\* one <item> of the feed: link and title follow from the slug
FeedEntry(s, content) == [slug |-> s, guid |-> Sha1OfName(s), var |-> CardTextOf(content)]

\* The document generate_feed returns for the entries rendered at instant u:
\* now_http has the resolution of a second.
FeedBytes(entries, u) ==
    [kind |-> "feed", slug |-> 0, var |-> 0, stamp |-> u \div SecTicks, entries |-> entries]

-----------------------------------------------------------------------------
(* The store's answers *)

\* Error answers a request may get whatever the store holds: the statuses
\* 409, 422 and 500 (requests.HTTPError from raise_for_status) and a timeout
\* (a requests exception that is not an HTTPError).
FaultStatuses == {"409", "422", "500", "timeout"}

\* The answers open to the next request: the store's own, or one more fault.
Outcomes == {"ok"} \cup (IF faultsLeft > 0 THEN FaultStatuses ELSE {})

\* The store's own status for PUT contents/<path> carrying revision sha
\* (Absent: the payload has no "sha"): a create needs no token, an update
\* needs the current one.
PutStatus(path, sha) ==
    IF store[path] = Absent
    THEN (IF sha = Absent THEN "201" ELSE "409")
    ELSE (IF sha = Absent THEN "422" ELSE IF sha = store[path] THEN "200" ELSE "409")

\* The store's own status for DELETE contents/<path> carrying revision sha.
DeleteStatus(path, sha) ==
    IF store[path] = Absent THEN "404"
    ELSE IF sha = store[path] THEN "200" ELSE "409"

\* GET contents/docs/cards: the names of the directory's *.json files other
\* than latest.json, as slugs in listing (name) order; the directory is
\* missing (404) when no file lies under it.
CardsDirExists == \E pth \in Paths \ {KeepDocs, FeedRss, FeedXml} : store[pth] # Absent

RECURSIVE SlugsFrom(_)
SlugsFrom(s) ==
    IF s > MaxWeek THEN <<>>
    ELSE (IF store[CardPath(s)] # Absent THEN <<s>> ELSE <<>>) \o SlugsFrom(s + 1)

ListedSlugs == SlugsFrom(-1)

RECURSIVE Without(_, _)
Without(seq, keep) ==
    IF seq = <<>> THEN <<>>
    ELSE (IF Head(seq) \in keep THEN <<>> ELSE <<Head(seq)>>) \o Without(Tail(seq), keep)

-----------------------------------------------------------------------------
(* publish_once(), one step per request *)

\* pc: the call's position; phase: which github_put_file call is running;
\* slug, card, sha, todo, feed: the locals; err, errAt: the last error answer
\* the call met and the phase it met it in; muts: the PUT and DELETE requests
\* and gets: the GET requests, the call has sent; pruned: the DELETEs the
\* store accepted from it; skipped: it returned at the existence check;
\* wroteCard: its card PUT was accepted.
Idle ==
    [pc |-> "idle", phase |-> "none", slug |-> 0, card |-> Absent, sha |-> Absent,
     todo |-> <<>>, feed |-> Absent, err |-> "none", errAt |-> "none", gets |-> 0,
     muts |-> 0, pruned |-> 0, skipped |-> FALSE, wroteCard |-> FALSE]

Active(q) == proc[q].pc \notin {"idle", "done", "raised"}

Other(p) == CHOOSE q \in Callers : q # p

\* the call has returned or raised: its locals are gone
Finished(r, pc) ==
    [r EXCEPT !.pc = pc, !.phase = "none", !.card = Absent, !.sha = Absent,
              !.todo = <<>>, !.feed = Absent]

\* the path and the bytes of the github_put_file call a phase stands for
PhasePath(r) ==
    CASE r.phase = "keep1" -> KeepDocs
      [] r.phase = "keep2" -> KeepCards
      [] r.phase = "card" -> CardPath(r.slug)
      [] r.phase = "latest" -> Latest
      [] r.phase = "rss" -> FeedRss
      [] r.phase = "xml" -> FeedXml

PhaseBytes(r) ==
    CASE r.phase \in {"keep1", "keep2"} -> EmptyBytes
      [] r.phase \in {"card", "latest"} -> r.card
      [] r.phase \in {"rss", "xml"} -> r.feed

\* where the caller of github_put_file goes on when the call returns
AfterPut(r) ==
    CASE r.phase = "keep1" -> [r EXCEPT !.pc = "put_get", !.phase = "keep2"]
      [] r.phase = "keep2" -> [r EXCEPT !.pc = "clock", !.phase = "none", !.sha = Absent]
      [] r.phase = "card" -> [r EXCEPT !.pc = "put_get", !.phase = "latest"]
      [] r.phase = "latest" -> [r EXCEPT !.pc = "prune_list", !.phase = "none", !.sha = Absent]
      [] r.phase = "rss" -> [r EXCEPT !.pc = "put_get", !.phase = "xml"]
      [] r.phase = "xml" -> Finished(r, "done")

\* a faulty except clause, for comparison: any error answer is swallowed
SwallowsAnyError(r, st) == r.phase \in {"keep1", "keep2"}

\* ensure_docs_structure's except clause: an HTTPError with status 409 or 422
\* raised by its github_put_file call
Swallows(r, st) == r.phase \in {"keep1", "keep2"} /\ st \in {"409", "422"}

\* a faulty handling, for comparison: a failed write is passed over and the
\* call goes on with the next statement
OnErrorGoesOn(r, st) ==
    LET met == [r EXCEPT !.err = st, !.errAt = IF r.phase = "none" THEN r.pc ELSE r.phase]
    IN IF r.phase # "none" THEN AfterPut(met) ELSE Finished(met, "raised")

\* An error answer st to a request of the call in r: swallowed by
\* ensure_docs_structure, or raised out of publish_once.
OnError(r, st) ==
    LET met == [r EXCEPT !.err = st, !.errAt = IF r.phase = "none" THEN r.pc ELSE r.phase]
    IN IF Swallows(r, st) THEN AfterPut(met) ELSE Finished(met, "raised")

\* the publish_once calls made in one behaviour: MaxCalls by the callers on
\* their own, one more by the thread of scheduler_loop, so that a call past
\* the two an iteration can make has a state
CallLimit == IF loop.pc = "off" THEN MaxCalls ELSE MaxCalls + 1

\* a faulty entry, for comparison: the credential is never looked at
publish_once_unchecked(p) ==
    /\ ~Active(p)
    /\ calls < CallLimit
    /\ calls' = calls + 1
    /\ proc' = [q \in Callers |->
                 IF q = p THEN [Idle EXCEPT !.pc = "put_get", !.phase = "keep1"]
                 ELSE IF Active(q) THEN proc[q] ELSE Idle]
    /\ UNCHANGED <<cfg, now, store, faultsLeft, cardWrites, partial, ret, loop, render, research>>

\* publish_once is entered (lines 483-486): a missing GITHUB_TOKEN raises
\* before anything else; otherwise ensure_docs_structure begins.
publish_once(p) ==
    /\ ~Active(p)
    /\ calls < CallLimit
    /\ calls' = calls + 1
    /\ LET r == IF cfg.token
                THEN [Idle EXCEPT !.pc = "put_get", !.phase = "keep1"]
                ELSE [Idle EXCEPT !.pc = "raised", !.err = "config"]
       IN proc' = [q \in Callers |-> IF q = p THEN r ELSE IF Active(q) THEN proc[q] ELSE Idle]
    /\ UNCHANGED <<cfg, now, store, faultsLeft, cardWrites, partial, ret, loop, render, research>>

\* a call made while no other call is in progress
StartAlone(p) == ~Active(Other(p)) /\ publish_once(p)

\* The slugs a failed call leaves half-committed: r2 is the call after the
\* step; it raised with its card already written.
PartialAfter(r2) ==
    IF r2.pc = "raised" /\ r2.wroteCard THEN partial \cup {r2.slug} ELSE partial

\* github_put_file, line 80: existing = github_get(f"contents/{path}")
PutGet(p) ==
    /\ proc[p].pc = "put_get"
    /\ LET r == [proc[p] EXCEPT !.gets = proc[p].gets + 1]
       IN \E a \in Outcomes :
            /\ faultsLeft' = IF a = "ok" THEN faultsLeft ELSE faultsLeft - 1
            /\ proc' = [proc EXCEPT ![p] =
                   IF a = "ok"
                   THEN [r EXCEPT !.pc = "put_put", !.sha = store[PhasePath(r)]]
                   ELSE OnError(r, a)]
    /\ partial' = PartialAfter(proc'[p])
    /\ UNCHANGED <<cfg, now, store, calls, cardWrites, ret, loop, render, research>>

\* github_put_file, lines 81-91: the PUT with the sha just read, if any
PutPut(p) ==
    /\ proc[p].pc = "put_put"
    /\ LET r == proc[p]
           path == PhasePath(r)
           sent == [r EXCEPT !.muts = r.muts + 1, !.sha = Absent]
       IN \E a \in Outcomes :
            LET st == IF a = "ok" THEN PutStatus(path, r.sha) ELSE a
                accepted == st \in {"200", "201"}
            IN /\ faultsLeft' = IF a = "ok" THEN faultsLeft ELSE faultsLeft - 1
               /\ store' = IF accepted THEN [store EXCEPT ![path] = PhaseBytes(r)] ELSE store
               /\ cardWrites' = IF accepted /\ r.phase = "card"
                                THEN [cardWrites EXCEPT ![r.slug] = cardWrites[r.slug] + 1]
                                ELSE cardWrites
               /\ proc' = [proc EXCEPT ![p] =
                      IF accepted
                      THEN AfterPut([sent EXCEPT !.wroteCard = r.wroteCard \/ r.phase = "card"])
                      ELSE OnError(sent, st)]
    /\ partial' = PartialAfter(proc'[p])
    /\ UNCHANGED <<cfg, now, calls, ret, loop, render, research>>

\* publish_once, lines 488-493: the clock is read and the slug derived
Clock(p) ==
    /\ proc[p].pc = "clock"
    /\ proc' = [proc EXCEPT ![p] =
           [proc[p] EXCEPT !.pc = "exists",
                           !.slug = current_week_slug(ToLocal(cfg.zone, now))]]
    /\ UNCHANGED <<cfg, now, store, faultsLeft, calls, cardWrites, partial, ret, loop, render, research>>

\* a faulty existence check, for comparison: the card is never found
file_exists_never(content) == FALSE

\* a faulty existence check, for comparison: any answer counts as found
file_exists_always(content) == TRUE

\* file_exists on what the GET of the path returned
file_exists(content) == content # Absent

\* publish_once, lines 495-497: file_exists(path); the call returns if so
Exists(p) ==
    /\ proc[p].pc = "exists"
    /\ LET r == [proc[p] EXCEPT !.gets = proc[p].gets + 1]
       IN \E a \in Outcomes :
            /\ faultsLeft' = IF a = "ok" THEN faultsLeft ELSE faultsLeft - 1
            /\ proc' = [proc EXCEPT ![p] =
                   IF a # "ok" THEN OnError(r, a)
                   ELSE IF file_exists(store[CardPath(r.slug)])
                   THEN Finished([r EXCEPT !.skipped = TRUE], "done")
                   ELSE [r EXCEPT !.pc = "items"]]
    /\ UNCHANGED <<cfg, now, store, calls, cardWrites, partial, ret, loop, render, research>>

\* publish_once, lines 499-502, and commit_card_and_feed, line 350: the item
\* list is obtained, the card built and serialised
Items(p) ==
    /\ proc[p].pc = "items"
    /\ \E v \in Variants :
         proc' = [proc EXCEPT ![p] =
             [proc[p] EXCEPT !.pc = "put_get", !.phase = "card",
                             !.card = CardBytes(proc[p].slug, v)]]
    /\ UNCHANGED <<cfg, now, store, faultsLeft, calls, cardWrites, partial, ret, loop, render, research>>

\* cleanup_cards_except has returned and generate_feed([slug]) begun, lines
\* 301-302: the render time is read at once, before the card is asked for
AfterCleanup(r) == [r EXCEPT !.pc = "feed_fetch", !.feed = FeedBytes(<<>>, now)]

\* a faulty cleanup, for comparison: nothing is ever deleted
CardsToPruneNone(keep_slugs) == <<>>

\* cleanup_cards_except(keep_slugs), lines 133-145, on the listing it got:
\* the slugs it goes on to delete, in listing order
CardsToPrune(keep_slugs) ==
    IF keep_slugs = <<>> \/ ~CardsDirExists THEN <<>>
    ELSE Without(ListedSlugs, {keep_slugs[i] : i \in 1..Len(keep_slugs)})

\* cleanup_cards_except([slug]), lines 133-138: the directory is listed
PruneList(p) ==
    /\ proc[p].pc = "prune_list"
    /\ LET r == [proc[p] EXCEPT !.gets = proc[p].gets + 1]
           todo == CardsToPrune(<<r.slug>>)
       IN \E a \in Outcomes :
            /\ faultsLeft' = IF a = "ok" THEN faultsLeft ELSE faultsLeft - 1
            /\ proc' = [proc EXCEPT ![p] =
                   IF a # "ok" THEN OnError(r, a)
                   ELSE IF todo = <<>> THEN AfterCleanup(r)
                   ELSE [r EXCEPT !.todo = todo, !.pc = "del_get"]]
    /\ partial' = PartialAfter(proc'[p])
    /\ UNCHANGED <<cfg, now, store, calls, cardWrites, ret, loop, render, research>>

\* github_delete_file, lines 96-98: the file's sha is read; nothing to delete
\* if it is gone
DelGet(p) ==
    /\ proc[p].pc = "del_get"
    /\ LET r == [proc[p] EXCEPT !.gets = proc[p].gets + 1]
           path == CardPath(Head(r.todo))
           left == [r EXCEPT !.todo = Tail(r.todo)]
           rest == IF Tail(r.todo) = <<>> THEN AfterCleanup(left) ELSE left
       IN \E a \in Outcomes :
            /\ faultsLeft' = IF a = "ok" THEN faultsLeft ELSE faultsLeft - 1
            /\ proc' = [proc EXCEPT ![p] =
                   IF a # "ok" THEN OnError(r, a)
                   ELSE IF store[path] # Absent
                   THEN [r EXCEPT !.pc = "del_del", !.sha = store[path]]
                   ELSE rest]
    /\ partial' = PartialAfter(proc'[p])
    /\ UNCHANGED <<cfg, now, store, calls, cardWrites, ret, loop, render, research>>

\* github_delete_file, lines 99-108: the DELETE with the sha just read
DelDel(p) ==
    /\ proc[p].pc = "del_del"
    /\ LET r == proc[p]
           path == CardPath(Head(r.todo))
           sent == [r EXCEPT !.muts = r.muts + 1, !.sha = Absent]
           left == [sent EXCEPT !.todo = Tail(r.todo), !.pruned = r.pruned + 1,
                                !.pc = "del_get"]
           rest == IF Tail(r.todo) = <<>> THEN AfterCleanup(left) ELSE left
       IN \E a \in Outcomes :
            LET st == IF a = "ok" THEN DeleteStatus(path, r.sha) ELSE a
            IN /\ faultsLeft' = IF a = "ok" THEN faultsLeft ELSE faultsLeft - 1
               /\ store' = IF st = "200" THEN [store EXCEPT ![path] = Absent] ELSE store
               /\ proc' = [proc EXCEPT ![p] = IF st = "200" THEN rest ELSE OnError(sent, st)]
    /\ partial' = PartialAfter(proc'[p])
    /\ UNCHANGED <<cfg, now, calls, cardWrites, ret, loop, render, research>>

\* generate_feed([slug]), lines 304-345: the slug's stored card is fetched
\* (get_card_json_text_b64) and the document built, stamped with the render
\* time read before the request
FeedFetch(p) ==
    /\ proc[p].pc = "feed_fetch"
    /\ LET r == [proc[p] EXCEPT !.gets = proc[p].gets + 1]
           feed == [r.feed EXCEPT !.entries = <<FeedEntry(r.slug, store[CardPath(r.slug)])>>]
       IN \E a \in Outcomes :
            /\ faultsLeft' = IF a = "ok" THEN faultsLeft ELSE faultsLeft - 1
            /\ proc' = [proc EXCEPT ![p] =
                   IF a # "ok" THEN OnError(r, a)
                   ELSE [r EXCEPT !.pc = "put_get", !.phase = "rss", !.feed = feed]]
    /\ partial' = PartialAfter(proc'[p])
    /\ UNCHANGED <<cfg, now, store, calls, cardWrites, ret, loop, render, research>>

\* time passes: a second, or on into the next ISO week
TickSecond ==
    /\ (now % WeekTicks) \div SecTicks < MaxSecs
    /\ now' = now + SecTicks
    /\ UNCHANGED <<cfg, store, proc, faultsLeft, calls, cardWrites, partial, ret, loop, render, research>>

NextWeek ==
    /\ now \div WeekTicks < MaxWeek
    /\ now' = now + WeekTicks
    /\ UNCHANGED <<cfg, store, proc, faultsLeft, calls, cardWrites, partial, ret, loop, render, research>>

-----------------------------------------------------------------------------
(* The pipeline's specification *)

\* the defaults of RUN_HOUR, RUN_MINUTE and RUN_WEEKDAY
DefaultRunHour == 8
DefaultRunMinute == 50
DefaultRunWeekday == 0

\* seconds_until_next_run has not returned: at is the instant it read, secs
\* the delay, wall the target's local reading, utc the instant that reading
\* denotes (what target.isoformat() shows), raised whether it raised
NoReturn ==
    [at |-> 0, secs |-> 0, wall |-> 0, utc |-> 0, raised |-> FALSE, waiting |-> FALSE]

\* scheduler_loop is not running (ENABLE_SCHEDULER off, or not yet started):
\* pc is its position, iter the iterations begun, tries the publish_once
\* calls of the iteration, target the instant the iteration sleeps to,
\* served the targets of the earlier iterations that called publish_once,
\* failedAt the instant the iteration's first call was seen to fail, spent
\* the ticks that have passed inside the call the thread is in (of
\* seconds_until_next_run or of publish_once), callsAt
\* the number of publish_once calls made before the iteration, failedSlugs
\* the slug the iteration's failed first call had derived, if it got that far
NotStarted ==
    [pc |-> "off", iter |-> 0, tries |-> 0, target |-> 0, served |-> {},
     failedAt |-> 0, spent |-> 0, callsAt |-> 0, failedSlugs |-> {}]

\* generate_feed is not being called on its own: pc is its position, max is
\* MAX_FEED_ITEMS, slugs the list passed, todo the slugs still to fetch,
\* fetched what the store returned for each slug fetched, at the instant of
\* now_http, out the document returned, runs the calls made, prev the
\* fetched contents and the document of the call before
NoRender ==
    [pc |-> "off", max |-> 0, slugs |-> <<>>, todo |-> <<>>, fetched |-> <<>>,
     at |-> 0, out |-> Absent, runs |-> 0, prevFetched |-> <<>>, prevOut |-> Absent]

\* ai_research_items is not being called on its own: pc is its position,
\* key whether PPLX_API_KEY is set, answer what the research call gave, kinds
\* the items of the list it gave, raised whether the function raised, items
\* the list it returned
NoResearch ==
    [pc |-> "off", key |-> FALSE, answer |-> "none", kinds |-> <<>>,
     raised |-> FALSE, items |-> <<>>]

\* a repository with no docs/ yet
EmptyStore == [pth \in Paths |-> Absent]

\* the repository as a completed publication of slug s left it
PublishedStore(s, v) ==
    [pth \in Paths |->
        CASE pth \in {KeepDocs, KeepCards} -> EmptyBytes
          [] pth \in {CardPath(s), Latest} -> CardBytes(s, v)
          [] pth \in {FeedRss, FeedXml} -> FeedBytes(<<FeedEntry(s, CardBytes(s, v))>>, -SecTicks)
          [] OTHER -> Absent]

InitStores == {EmptyStore, PublishedStore(-1, 1)}

\* A fresh repository or one last published to before week 0; the credential
\* set or not; the run time at its defaults.
Init ==
    /\ cfg \in {[token |-> t, zone |-> "fixed", catchUp |-> FALSE,
                 weekday |-> DefaultRunWeekday, hour |-> DefaultRunHour,
                 minute |-> DefaultRunMinute] : t \in BOOLEAN}
    /\ now = 0
    /\ store \in InitStores
    /\ proc = [p \in Callers |-> Idle]
    /\ faultsLeft = MaxFaults
    /\ calls = 0
    /\ cardWrites = [s \in Slugs |-> 0]
    /\ partial = {}
    /\ ret = NoReturn
    /\ loop = NotStarted
    /\ render = NoRender
    /\ research = NoResearch

Next ==
    \/ \E p \in Callers :
         \/ StartAlone(p)
         \/ PutGet(p)
         \/ PutPut(p)
         \/ Clock(p)
         \/ Exists(p)
         \/ Items(p)
         \/ PruneList(p)
         \/ DelGet(p)
         \/ DelDel(p)
         \/ FeedFetch(p)
    \/ TickSecond
    \/ NextWeek

Spec == Init /\ [][Next]_vars

-----------------------------------------------------------------------------
(* The two callers at once: the scheduler thread's publish_once() and the  *)
(* one of POST /action/run-now, interleaved request by request, against a  *)
(* store that answers every request by what it holds.                      *)

InitRace ==
    /\ cfg = [token |-> TRUE, zone |-> "fixed", catchUp |-> FALSE,
              weekday |-> DefaultRunWeekday, hour |-> DefaultRunHour,
              minute |-> DefaultRunMinute]
    /\ now = 0
    /\ store \in InitStores
    /\ proc = [p \in Callers |-> Idle]
    /\ faultsLeft = 0
    /\ calls = 0
    /\ cardWrites = [s \in Slugs |-> 0]
    /\ partial = {}
    /\ ret = NoReturn
    /\ loop = NotStarted
    /\ render = NoRender
    /\ research = NoResearch

NextRace ==
    \/ \E p \in Callers :
         \/ publish_once(p)
         \/ PutGet(p)
         \/ PutPut(p)
         \/ Clock(p)
         \/ Exists(p)
         \/ Items(p)
         \/ PruneList(p)
         \/ DelGet(p)
         \/ DelDel(p)
         \/ FeedFetch(p)
    \/ NextWeek

SpecRace == InitRace /\ [][NextRace]_vars

-----------------------------------------------------------------------------
(* Properties of the pipeline *)

Quiescent == \A p \in Callers : ~Active(p)

\* the slugs with a card file in the store
CardsPresent == {s \in Slugs : store[CardPath(s)] # Absent}

Newest(S) == CHOOSE s \in S : \A t \in S : t <= s

\* the feed file at pth has an entry for slug s
FeedNames(pth, s) ==
    /\ store[pth].kind = "feed"
    /\ \E i \in 1..Len(store[pth].entries) : store[pth].entries[i].slug = s

\* C1: calls made one after the other against a store that never fails, with
\* no card of their slug there at first, write docs/cards/<slug>.json once
\* in all: a completed call leaves the count at one, the call that did not
\* skip is the one that wrote it, and a call that skipped wrote nothing.
C1_OneCardWrite ==
    (faultsLeft = MaxFaults) =>
        /\ \A s \in Slugs : cardWrites[s] <= 1
        /\ \A p \in Callers :
             proc[p].pc = "done" =>
                /\ cardWrites[proc[p].slug] = 1
                /\ proc[p].wroteCard = ~proc[p].skipped

\* a second call in the slug's week has returned, after a first one wrote
C1_Witness ==
    /\ faultsLeft = MaxFaults
    /\ calls = 2
    /\ \E p \in Callers :
         /\ proc[p].pc = "done"
         /\ proc[p].skipped
         /\ cardWrites[proc[p].slug] = 1

\* C2: a call that finds the card of its slug in the store returns having
\* sent no PUT and no DELETE request (so that it changed no path).
C2_SkipSendsNoWrite ==
    \A p \in Callers : (proc[p].pc = "done" /\ proc[p].skipped) => proc[p].muts = 0

\* C3: whatever the interleaving of the two callers, the store accepts at
\* most one PUT of docs/cards/<slug>.json per slug.
C3_SingleFlight == \A s \in Slugs : cardWrites[s] <= 1

\* C4: the bytes of a card file never change while the file exists.
C4_CardImmutable ==
    [][\A s \in Slugs :
          (store[CardPath(s)] # Absent /\ store'[CardPath(s)] # Absent)
              => store'[CardPath(s)] = store[CardPath(s)]]_vars

\* C5: with no call in progress and a card in the store, latest.json holds
\* the bytes of the card with the greatest slug.
C5_LatestIsNewest ==
    (Quiescent /\ CardsPresent # {}) => store[Latest] = store[CardPath(Newest(CardsPresent))]

\* C6: a call that met no store error, for a slug whose card an earlier call
\* wrote before failing, leaves both feed files naming that slug.
C6_FeedHealed ==
    \A p \in Callers :
        (proc[p].pc = "done" /\ proc[p].err = "none" /\ proc[p].slug \in partial)
            => (FeedNames(FeedRss, proc[p].slug) /\ FeedNames(FeedXml, proc[p].slug))

\* C7: with GITHUB_TOKEN empty no call ever gets past its first line: it
\* raises the configuration error having sent no request, and the store
\* stays as it was.
C7_NoTokenNoRequest ==
    ~cfg.token =>
        /\ store \in InitStores
        /\ \A p \in Callers :
             /\ proc[p].pc \in {"idle", "raised"}
             /\ proc[p].pc = "raised" => proc[p].err = "config"
             /\ proc[p].gets = 0 /\ proc[p].muts = 0

C7_Witness ==
    /\ ~cfg.token
    /\ \E p \in Callers : proc[p].pc = "raised" /\ proc[p].err = "config"

\* the last error answer the call met was one ensure_docs_structure swallows
C8_Swallowable(r) == r.errAt \in {"keep1", "keep2"} /\ r.err \in {"409", "422"}

\* the call is past the github_put_file call in which it met its last error
C8_MovedOn(r) ==
    /\ r.pc # "raised"
    /\ r.phase # r.errAt
    /\ r.errAt = "keep2" => r.phase # "keep1"

\* a call that has raised does nothing more: its record changes only when
\* its caller calls publish_once again (or another call clears it)
C8_RaisedIsFinal ==
    \A p \in Callers :
        (proc[p].pc = "raised" /\ proc'[p] # proc[p])
            => (proc'[p].gets = 0 /\ proc'[p].muts = 0
                /\ proc'[p].pc \in {"idle", "put_get", "raised"})

\* C8: a 409 or 422 answer inside a structure-ensure github_put_file call
\* is swallowed and the call goes on with the next step; any other error
\* answer, there or at any later request, is raised out of publish_once,
\* which then runs no further step.
C8_ErrorHandling ==
    /\ [](\A p \in Callers :
            /\ proc[p].pc = "raised" => proc[p].err # "none"
            /\ proc[p].err \notin {"none", "config"} =>
                 IF C8_Swallowable(proc[p]) THEN C8_MovedOn(proc[p])
                 ELSE proc[p].pc = "raised")
    /\ [][C8_RaisedIsFinal]_vars

\* a call went on to commit after a swallowed 422
C8_Witness ==
    \E p \in Callers :
        /\ proc[p].err = "422"
        /\ proc[p].errAt = "keep2"
        /\ proc[p].pc = "done"
        /\ proc[p].wroteCard

\* C9: when a call that wrote the card of its slug returns, the *.json
\* files under docs/cards/ are that card and latest.json, no other.
C9_OnlyCurrentCard ==
    \A p \in Callers :
        (proc[p].pc = "done" /\ proc[p].wroteCard)
            => (CardsPresent = {proc[p].slug} /\ store[Latest] # Absent)

\* such a call returned after deleting two older cards
C9_Witness ==
    \E p \in Callers :
        proc[p].pc = "done" /\ proc[p].wroteCard /\ proc[p].pruned = 2

-----------------------------------------------------------------------------
(* The scheduler's delay: seconds_until_next_run() *)

\* int(delta.total_seconds()) of a difference of d ticks: towards zero
WholeSeconds(d) == IF d >= 0 THEN d \div SecTicks ELSE -((-d) \div SecTicks)

\* a faulty clamp, for comparison: the difference is returned as it is
MaxUnclamped(a, b) == b

Max(a, b) == IF a >= b THEN a ELSE b

\* dt.replace(hour=h, minute=m, second=0, microsecond=0) of a local reading
ReplaceTime(w, h, m) == (w \div DayTicks) * DayTicks + h * HourTicks + m * MinuteTicks

\* seconds_until_next_run(), lines 509-528, at instant u under configuration
\* c; cardExists is what file_exists answered in catch-up mode.
seconds_until_next_run(c, u, cardExists) ==
    LET now_local == ToLocal(c.zone, u)
        days_ahead == (c.weekday - Weekday(now_local)) % 7
        target0 == ReplaceTime(now_local + days_ahead * DayTicks, c.hour, c.minute)
        target == IF days_ahead = 0 /\ now_local >= target0
                  THEN target0 + 7 * DayTicks
                  ELSE target0
        delta == WallToUtc(c.zone, target) - u
    IN IF c.catchUp /\ ~cardExists
       THEN [at |-> u, secs |-> 1, wall |-> now_local, utc |-> u, raised |-> FALSE,
             waiting |-> FALSE]
       ELSE [at |-> u, secs |-> Max(1, WholeSeconds(delta)), wall |-> target,
             utc |-> WallToUtc(c.zone, target), raised |-> FALSE, waiting |-> FALSE]

\* seconds_until_next_run is called, lines 508-514: the clock is read;
\* with catch-up off it returns, in catch-up mode it asks the store for the
\* card of the week just read and waits for the answer.
ComputeDelay ==
    /\ ret = NoReturn
    /\ ret' = IF cfg.catchUp
              THEN [NoReturn EXCEPT !.at = now, !.waiting = TRUE]
              ELSE seconds_until_next_run(cfg, now, FALSE)
    /\ UNCHANGED <<cfg, now, store, proc, faultsLeft, calls, cardWrites, partial, loop,
                   render, research>>

\* lines 514-528: file_exists is answered, by what the store holds then; an
\* error answer raises; the delay is taken from the clock reading of line 508
DelayExists ==
    /\ ret.waiting
    /\ LET slug == current_week_slug(ToLocal(cfg.zone, ret.at))
       IN \E a \in Outcomes :
            /\ faultsLeft' = IF a = "ok" THEN faultsLeft ELSE faultsLeft - 1
            /\ ret' = IF a = "ok"
                      THEN seconds_until_next_run(cfg, ret.at,
                               file_exists(store[CardPath(slug)]))
                      ELSE [NoReturn EXCEPT !.at = ret.at, !.raised = TRUE]
    /\ UNCHANGED <<cfg, now, store, proc, calls, cardWrites, partial, loop, render, research>>

\* the clock moves on by one tick before the call, or while it waits
TickBefore ==
    /\ ret = NoReturn \/ ret.waiting
    /\ now % SecTicks < MaxTicks
    /\ now' = now + 1
    /\ UNCHANGED <<cfg, store, proc, faultsLeft, calls, cardWrites, partial, ret, loop, render, research>>

\* the first run time of week 0 under the default configuration, as a UTC
\* instant
FirstTarget ==
    WallToUtc("fixed", DefaultRunWeekday * DayTicks + DefaultRunHour * HourTicks
                       + DefaultRunMinute * MinuteTicks)

\* the configured run times tried: the default 08:50, midnight, and 02:30,
\* inside the hour a change of offset skips or repeats
RunTimes == {<<DefaultRunHour, DefaultRunMinute>>, <<0, 0>>, <<2, 30>>}
RunWeekdays == {DefaultRunWeekday, 3, 6}

\* the instants tried: every day of the modelled weeks but the last, at
\* times of day (UTC) around those run times in either offset
ClockTimes ==
    {h * HourTicks + ms[1] * MinuteTicks + ms[2] * SecTicks :
        h \in {0, 1, 6, 7, 12, 22},
        ms \in {<<0, 0>>, <<10, 0>>, <<29, 59>>, <<30, 0>>, <<40, 0>>, <<49, 59>>,
                <<50, 0>>, <<59, 59>>}}

Instants == {d * DayTicks + t : d \in 0..(7 * (MaxWeek + 1) - 2), t \in ClockTimes}

InitDelay ==
    /\ cfg \in {[token |-> TRUE, zone |-> z, catchUp |-> cu, weekday |-> wd,
                 hour |-> hm[1], minute |-> hm[2]] :
                   z \in Zones, cu \in BOOLEAN, wd \in RunWeekdays, hm \in RunTimes}
    /\ now \in Instants
    /\ store \in (IF cfg.catchUp
                  THEN {EmptyStore} \cup {PublishedStore(s, 1) : s \in 0..MaxWeek}
                  ELSE {EmptyStore})
    /\ proc = [p \in Callers |-> Idle]
    /\ faultsLeft = MaxFaults
    /\ calls = 0
    /\ cardWrites = [s \in Slugs |-> 0]
    /\ partial = {}
    /\ ret = NoReturn
    /\ loop = NotStarted
    /\ render = NoRender
    /\ research = NoResearch

\* POST /action/run-now arrives while seconds_until_next_run waits for its
\* answer: explored for the default run time, from clock readings within
\* two seconds of it
RaceWindow ==
    /\ ret.waiting
    /\ cfg.zone = "fixed" /\ cfg.weekday = DefaultRunWeekday
    /\ cfg.hour = DefaultRunHour /\ cfg.minute = DefaultRunMinute
    /\ ret.at \in (FirstTarget - 2 * SecTicks)..(FirstTarget + 1)

NextDelay ==
    \/ ComputeDelay
    \/ DelayExists
    \/ TickBefore
    \/ RaceWindow /\ publish_once("manual")
    \/ RaceWindow /\ PutGet("manual")
    \/ RaceWindow /\ PutPut("manual")
    \/ RaceWindow /\ Clock("manual")
    \/ RaceWindow /\ Exists("manual")
    \/ RaceWindow /\ Items("manual")
    \/ RaceWindow /\ PruneList("manual")
    \/ RaceWindow /\ DelGet("manual")
    \/ RaceWindow /\ DelDel("manual")
    \/ RaceWindow /\ FeedFetch("manual")

SpecDelay == InitDelay /\ [][NextDelay]_vars

-----------------------------------------------------------------------------
(* Properties of the delay *)

\* the local reading of instant t falls on the configured weekday at
\* RUN_HOUR:RUN_MINUTE:00
AtRunTime(c, t) ==
    /\ Weekday(ToLocal(c.zone, t)) = c.weekday
    /\ ToLocal(c.zone, t) % DayTicks = c.hour * HourTicks + c.minute * MinuteTicks

\* the instants around u at which some offset of the zone shows that time
RunCandidates(c, u) ==
    {(u \div DayTicks + k) * DayTicks + c.hour * HourTicks + c.minute * MinuteTicks - off :
        k \in (-1)..15, off \in {HourTicks, 2 * HourTicks}}

\* the earliest instant strictly after u that is a run time
NextRunInstant(c, u) ==
    CHOOSE t \in RunCandidates(c, u) :
        /\ t > u /\ AtRunTime(c, t)
        /\ \A t2 \in RunCandidates(c, u) : (t2 > u /\ AtRunTime(c, t2)) => t <= t2

\* C10: with catch-up disabled the target returned is the earliest instant
\* strictly after now whose local weekday is RUN_WEEKDAY and whose local
\* time is RUN_HOUR:RUN_MINUTE:00, and the delay is the whole seconds from
\* now to it.
C10_NextRunIsEarliest ==
    (ret # NoReturn /\ ~cfg.catchUp) =>
        /\ ret.utc = NextRunInstant(cfg, ret.at)
        /\ ret.secs = WholeSeconds(NextRunInstant(cfg, ret.at) - ret.at)

\* C11: whatever the instant and the configuration, catch-up on or off, a
\* delay that seconds_until_next_run returns is an integer of at least 1.
C11_DelayAtLeastOne ==
    (ret # NoReturn /\ ~ret.waiting /\ ~ret.raised) => (ret.secs \in Nat /\ ret.secs >= 1)

\* the clamp acted: less than a whole second, or a negative time, lay
\* between now and the target, and the delay returned is 1
C11_Witness ==
    /\ ret # NoReturn /\ ~ret.raised /\ ~cfg.catchUp
    /\ ret.utc - ret.at < SecTicks
    /\ ret.secs = 1

\* the card of the ISO week of instant u is in the store
WeekCardExists(u) == store[CardPath(current_week_slug(ToLocal(cfg.zone, u)))] # Absent

\* what the call would have returned at the same instant with catch-up off
ScheduledReturn == seconds_until_next_run([cfg EXCEPT !.catchUp = FALSE], ret.at, FALSE)

\* C13: in catch-up mode, with no card stored for the current ISO week the
\* delay returned is 1 second; with that card stored, the delay and the
\* target are those returned with catch-up disabled.
C13_CatchUp ==
    (ret # NoReturn /\ ~ret.waiting /\ ~ret.raised /\ cfg.catchUp) =>
        IF WeekCardExists(ret.at)
        THEN ret.secs = ScheduledReturn.secs /\ ret.wall = ScheduledReturn.wall
             /\ ret.utc = ScheduledReturn.utc
        ELSE ret.secs = 1

\* catch-up made the difference: no card for the week, the delay is 1, and
\* the schedule alone would have waited longer
C13_Witness ==
    /\ ret # NoReturn /\ ~ret.waiting /\ ~ret.raised /\ cfg.catchUp
    /\ ~WeekCardExists(ret.at)
    /\ ret.secs = 1
    /\ ScheduledReturn.secs > 1

-----------------------------------------------------------------------------
(* scheduler_loop(): the scheduler thread *)

\* time.sleep(600) after a failed publish_once, in seconds
Cooldown == 600

\* the instant the clock would show after a sleep is still in a modelled week
InModelledWeeks(u) == ToLocal(cfg.zone, u) \div WeekTicks <= MaxWeek

\* a faulty handler, for comparison: every failure is followed by a cooldown
\* and another call
AfterAttemptRetryAgain(tries, failed) ==
    IF failed THEN "cooldown" ELSE "compute"

\* lines 536-544: where the loop goes when a publish_once call has returned
\* (failed: it raised); tries is the number of calls made in the iteration
AfterAttempt(tries, failed) ==
    IF failed /\ tries = 1 THEN "cooldown" ELSE "compute"

\* line 533: seconds_until_next_run() is called
LoopCompute == loop.pc = "compute" /\ ComputeDelay

\* line 533, in catch-up mode: the call's file_exists request is answered
LoopExists == loop.pc = "compute" /\ DelayExists

\* line 533: the call raised; nothing in scheduler_loop catches it, and the
\* thread ends
LoopRaise ==
    /\ loop.pc = "compute"
    /\ ret.raised
    /\ loop' = [loop EXCEPT !.pc = "dead"]
    /\ ret' = NoReturn
    /\ UNCHANGED <<cfg, now, store, proc, faultsLeft, calls, cardWrites, partial, render, research>>

\* lines 534-535: time.sleep(secs) returns after secs seconds or a little
\* more; the iteration is about to call publish_once
LoopSleep ==
    /\ loop.pc = "compute"
    /\ ret # NoReturn /\ ~ret.waiting /\ ~ret.raised
    /\ \E over \in {0, MaxOver} :
         /\ now' = now + ret.secs * SecTicks + over
         /\ InModelledWeeks(now')
    /\ loop' = [loop EXCEPT !.pc = "publish", !.iter = loop.iter + 1, !.tries = 1,
                            !.target = ret.utc, !.failedAt = 0, !.spent = 0,
                            !.callsAt = calls]
    /\ ret' = NoReturn
    /\ UNCHANGED <<cfg, store, proc, faultsLeft, calls, cardWrites, partial, render, research>>

\* lines 537 and 542: publish_once() is called
LoopCall ==
    /\ loop.pc \in {"publish", "retry"}
    /\ proc["sched"].pc = "idle"
    /\ publish_once("sched")

\* publish_once, lines 488-493, has run in the call: slug holds its value
SlugDerived(r) ==
    \/ r.pc \in {"exists", "items", "prune_list", "del_get", "del_del", "feed_fetch"}
    \/ r.phase \in {"card", "latest", "rss", "xml"}
    \/ r.skipped
    \/ r.wroteCard
    \/ r.pc = "done"
    \/ r.errAt \in {"exists", "card", "latest", "prune_list", "del_get", "del_del",
                    "feed_fetch", "rss", "xml"}

\* lines 536-544: the call returned or raised; a first failure is logged and
\* the cooldown begins, anything else ends the iteration
LoopReturn ==
    /\ loop.pc \in {"publish", "retry"}
    /\ proc["sched"].pc \in {"done", "raised"}
    /\ LET failed == proc["sched"].pc = "raised"
           next == AfterAttempt(loop.tries, failed)
       IN loop' = [loop EXCEPT !.pc = next,
                               !.failedAt = IF next = "cooldown" THEN now ELSE loop.failedAt,
                               !.served = IF next = "compute"
                                          THEN loop.served \cup {loop.target}
                                          ELSE loop.served,
                               !.spent = 0,
                               !.failedSlugs =
                                   IF next = "cooldown" /\ SlugDerived(proc["sched"])
                                   THEN {proc["sched"].slug}
                                   ELSE {}]
    /\ proc' = [proc EXCEPT !["sched"] = Idle]
    /\ UNCHANGED <<cfg, now, store, faultsLeft, calls, cardWrites, partial, ret, render, research>>

\* line 540: time.sleep(600), then the retry is about to be called
LoopCooldown ==
    /\ loop.pc = "cooldown"
    /\ \E over \in {0, MaxOver} :
         /\ now' = now + Cooldown * SecTicks + over
         /\ InModelledWeeks(now')
    /\ loop' = [loop EXCEPT !.pc = "retry", !.tries = 2]
    /\ UNCHANGED <<cfg, store, proc, faultsLeft, calls, cardWrites, partial, ret, render, research>>

\* the places of a publish_once call at which passing time shows: every
\* stop of a running call, where it waits for an answer or is about to read
\* the clock; the time spent shows in the slug, in the feed's stamp and in
\* the instant the call returns or raises
ClockShows(r) == r.pc \notin {"idle", "done", "raised"}

\* time passes while publish_once is running, or while
\* seconds_until_next_run waits for the answer to file_exists (line 514)
Elapse ==
    /\ ClockShows(proc["sched"]) \/ (loop.pc = "compute" /\ ret.waiting)
    /\ loop.spent < MaxSpent
    /\ now' = now + 1
    /\ loop' = [loop EXCEPT !.spent = loop.spent + 1]
    /\ UNCHANGED <<cfg, store, proc, faultsLeft, calls, cardWrites, partial, ret, render, research>>

\* the thread starts a little before that run time, on a whole second or
\* just short of one
StartInstants ==
    {FirstTarget - 2 * SecTicks - 1, FirstTarget - 2 * SecTicks}

InitLoop ==
    /\ cfg \in {[token |-> t, zone |-> "fixed", catchUp |-> cu,
                 weekday |-> DefaultRunWeekday, hour |-> DefaultRunHour,
                 minute |-> DefaultRunMinute] : t \in BOOLEAN, cu \in BOOLEAN}
    /\ now \in StartInstants
    /\ store \in InitStores
    /\ proc = [p \in Callers |-> Idle]
    /\ faultsLeft = MaxFaults
    /\ calls = 0
    /\ cardWrites = [s \in Slugs |-> 0]
    /\ partial = {}
    /\ ret = NoReturn
    /\ loop = [NotStarted EXCEPT !.pc = "compute"]
    /\ render = NoRender
    /\ research = NoResearch

\* the thread's first MaxCalls calls of publish_once are followed request
\* by request; the call after them is followed up to its first request
Followed == calls <= MaxCalls

NextLoop ==
    \/ LoopCompute
    \/ LoopExists
    \/ LoopRaise
    \/ LoopSleep
    \/ LoopCall
    \/ LoopReturn
    \/ LoopCooldown
    \/ Elapse
    \/ Followed /\ PutGet("sched")
    \/ Followed /\ PutPut("sched")
    \/ Followed /\ Clock("sched")
    \/ Followed /\ Exists("sched")
    \/ Followed /\ Items("sched")
    \/ Followed /\ PruneList("sched")
    \/ Followed /\ DelGet("sched")
    \/ Followed /\ DelDel("sched")
    \/ Followed /\ FeedFetch("sched")

SpecLoop == InitLoop /\ [][NextLoop]_vars

-----------------------------------------------------------------------------
(* Properties of the scheduler loop *)

\* C12: with catch-up disabled, an iteration that is calling publish_once
\* does so for a target instant no earlier iteration called it for.
C12_OncePerTarget ==
    (~cfg.catchUp /\ loop.pc \in {"publish", "cooldown", "retry"})
        => loop.target \notin loop.served

\* publish_once calls made so far in the loop's current iteration
CallsThisIteration == calls - loop.callsAt

\* a step in which the iteration's second publish_once call is made: the
\* first was seen to fail and the whole cooldown has passed since
C14_RetryAfterCooldown ==
    (calls' = calls + 1 /\ CallsThisIteration = 1)
        => /\ loop.pc = "retry"
           /\ loop.failedAt > 0
           /\ now >= loop.failedAt + Cooldown * SecTicks

\* a step in which the retry's outcome is taken: the loop goes on to
\* compute the next delay
C14_ResumeAfterRetry ==
    (loop.pc = "retry" /\ loop'.pc # "retry") => loop'.pc = "compute"

\* C14: an iteration of scheduler_loop calls publish_once at most twice; the
\* second call is made only after the first failed and 600 seconds have
\* passed, and whether it succeeds or fails the loop goes on to compute the
\* next delay.
C14_RetryOnce ==
    /\ [](loop.pc # "off" => CallsThisIteration <= 2)
    /\ [][C14_RetryAfterCooldown /\ C14_ResumeAfterRetry]_vars

\* an iteration made its two calls, the retry after the cooldown; the loop
\* went on, slept until the next run and has made that iteration's call
C14_Witness ==
    /\ loop.iter = 2
    /\ loop.callsAt = 2
    /\ loop.pc = "publish"
    /\ CallsThisIteration = 1
    /\ loop.served # {}

\* C15: once started, scheduler_loop never terminates, whatever the store
\* answers to the requests made from the loop, the existence check of the
\* catch-up mode included; a loop that is to begin iteration after iteration
\* must at least never have ended.
C15_LoopNeverEnds == loop.pc # "dead"

-----------------------------------------------------------------------------
(* generate_feed(slugs_desc) on a slug list *)

\* the default of MAX_FEED_ITEMS
DefaultMaxFeedItems == 10

Min(a, b) == IF a <= b THEN a ELSE b

\* a faulty slice, for comparison: the list is taken whole
SliceAll(seq, n) == seq

\* seq[:n] as Python takes it
Slice(seq, n) ==
    IF n >= 0 THEN SubSeq(seq, 1, Min(n, Len(seq)))
    ELSE SubSeq(seq, 1, Max(Len(seq) + n, 0))

\* lines 303-345: the document built from the slugs rendered, what the store
\* returned for each, and the instant of now_http
RenderedFeed(slugs, fetched, u) ==
    FeedBytes([i \in 1..Len(slugs) |-> FeedEntry(slugs[i], fetched[i])], u)

\* lines 301-302, and 333-345 for an empty list: the list is cut to
\* MAX_FEED_ITEMS and the clock read
RenderStart ==
    /\ render.pc \in {"idle", "done", "raised"}
    /\ render.runs < MaxRenders
    /\ LET todo == Slice(render.slugs, render.max)
           began == [render EXCEPT !.runs = render.runs + 1, !.todo = todo,
                                   !.fetched = <<>>, !.at = now, !.out = Absent,
                                   !.prevFetched = render.fetched,
                                   !.prevOut = render.out]
       IN render' = IF todo = <<>>
                    THEN [began EXCEPT !.pc = "done",
                                       !.out = RenderedFeed(<<>>, <<>>, now)]
                    ELSE [began EXCEPT !.pc = "fetch"]
    /\ UNCHANGED <<cfg, now, store, proc, faultsLeft, calls, cardWrites, partial, ret, loop, research>>

\* lines 305-331, one turn of the loop: get_card_json_text_b64(slug) asks
\* the store; an error answer raises out of generate_feed; after the last
\* slug the document is returned
RenderFetch ==
    /\ render.pc = "fetch"
    /\ \E a \in Outcomes :
         /\ faultsLeft' = IF a = "ok" THEN faultsLeft ELSE faultsLeft - 1
         /\ LET slug == Head(render.todo)
                fetched == Append(render.fetched, store[CardPath(slug)])
                used == Slice(render.slugs, render.max)
            IN render' =
                 IF a # "ok"
                 THEN [render EXCEPT !.pc = "raised", !.todo = <<>>]
                 ELSE IF Tail(render.todo) = <<>>
                 THEN [render EXCEPT !.pc = "done", !.todo = <<>>, !.fetched = fetched,
                                     !.out = RenderedFeed(used, fetched, render.at)]
                 ELSE [render EXCEPT !.todo = Tail(render.todo), !.fetched = fetched]
    /\ UNCHANGED <<cfg, now, store, proc, calls, cardWrites, partial, ret, loop, research>>

\* the slug lists tried: names of one directory, so no slug twice, in any
\* order, of length up to MaxLen
SlugLists ==
    {q \in UNION {[1..n -> Slugs] : n \in 0..MaxLen} :
        \A i, j \in DOMAIN q : q[i] = q[j] => i = j}

\* the values of MAX_FEED_ITEMS tried
FeedLimits == {1, 2, DefaultMaxFeedItems}

\* stores with no card, with every card but that of week 0, with every card
FeedStores ==
    {[pth \in Paths |->
        IF \E sl \in S : pth = CardPath(sl) THEN CardBytes(pth[2], 1) ELSE Absent] :
     S \in {{}, Slugs \ {0}, Slugs}}

InitFeed ==
    /\ cfg = [token |-> TRUE, zone |-> "fixed", catchUp |-> FALSE,
              weekday |-> DefaultRunWeekday, hour |-> DefaultRunHour,
              minute |-> DefaultRunMinute]
    /\ now = 0
    /\ store \in FeedStores
    /\ proc = [p \in Callers |-> Idle]
    /\ faultsLeft = MaxFaults
    /\ calls = 0
    /\ cardWrites = [sl \in Slugs |-> 0]
    /\ partial = {}
    /\ ret = NoReturn
    /\ loop = NotStarted
    /\ render \in {[NoRender EXCEPT !.pc = "idle", !.max = mx, !.slugs = q] :
                      mx \in FeedLimits, q \in SlugLists}
    /\ research = NoResearch

NextFeed ==
    \/ RenderStart
    \/ RenderFetch
    \/ TickSecond

SpecFeed == InitFeed /\ [][NextFeed]_vars

\* the slug lists list_card_slugs_from_repo returns (line 128): descending
DescendingLists ==
    {q \in SlugLists : \A i, j \in DOMAIN q : i < j => q[i] > q[j]}

\* generate_feed on such a list against a store that another caller writes
\* to and that answers every request by what it holds
InitFeedRace ==
    /\ cfg = [token |-> TRUE, zone |-> "fixed", catchUp |-> FALSE,
              weekday |-> DefaultRunWeekday, hour |-> DefaultRunHour,
              minute |-> DefaultRunMinute]
    /\ now = 0
    /\ store \in FeedStores
    /\ proc = [p \in Callers |-> Idle]
    /\ faultsLeft = 0
    /\ calls = 0
    /\ cardWrites = [sl \in Slugs |-> 0]
    /\ partial = {}
    /\ ret = NoReturn
    /\ loop = NotStarted
    /\ render \in {[NoRender EXCEPT !.pc = "idle", !.max = mx, !.slugs = q] :
                      mx \in FeedLimits, q \in DescendingLists}
    /\ research = NoResearch

\* generate_feed is called, twice over, while POST /action/run-now runs
\* publish_once beside it, request by request: its card write, its prune
\* and its feed writes fall before, between and inside the renders
NextFeedRace ==
    \/ RenderStart
    \/ RenderFetch
    \/ TickSecond
    \/ publish_once("manual")
    \/ PutGet("manual")
    \/ PutPut("manual")
    \/ Clock("manual")
    \/ Exists("manual")
    \/ Items("manual")
    \/ PruneList("manual")
    \/ DelGet("manual")
    \/ DelDel("manual")
    \/ FeedFetch("manual")

SpecFeedRace == InitFeedRace /\ [][NextFeedRace]_vars

-----------------------------------------------------------------------------
(* Properties of the feed *)

\* C16: the feed generate_feed returns holds min(len(list), MAX_FEED_ITEMS)
\* entries, the first entries of the list passed, in the order given.
C16_FeedBoundAndOrder ==
    render.pc = "done" =>
        /\ Len(render.out.entries) = Min(Len(render.slugs), render.max)
        /\ \A i \in 1..Len(render.out.entries) :
             render.out.entries[i].slug = render.slugs[i]

\* a list longer than MAX_FEED_ITEMS was rendered, cut to MAX_FEED_ITEMS
C16_Witness ==
    /\ render.pc = "done"
    /\ Len(render.slugs) > render.max
    /\ Len(render.out.entries) = render.max
    /\ render.max > 1

\* C17: a fetch of one slug's card that fails, by a missing file or by a
\* store error, leaves generate_feed rendering: the call never ends by
\* raising.
C17_FetchFailureNeverAborts == render.pc # "raised"

\* both of two calls on the slug list returned a document
RenderedTwice == render.pc = "done" /\ render.prevOut # Absent

\* C18: two calls of generate_feed on the same slug list that were given the
\* same stored bytes for every slug return the same document, whatever the
\* instants of the calls.
C18_RenderDeterministic ==
    (RenderedTwice /\ render.fetched = render.prevFetched)
        => render.out = render.prevOut

\* C19: two calls of generate_feed on the same slug list give each entry the
\* same guid, whatever the instants of the calls and the card bytes stored.
C19_GuidOfSlugAlone ==
    RenderedTwice =>
        /\ Len(render.out.entries) = Len(render.prevOut.entries)
        /\ \A i \in 1..Len(render.out.entries) :
             /\ render.out.entries[i].guid = render.prevOut.entries[i].guid
             /\ render.out.entries[i].guid = Sha1OfName(render.slugs[i])

\* two entries rendered twice, at different seconds and from different
\* card bytes
C19_Witness ==
    /\ RenderedTwice
    /\ Len(render.out.entries) >= 2
    /\ render.out.stamp # render.prevOut.stamp
    /\ render.fetched # render.prevFetched

-----------------------------------------------------------------------------
(* ai_research_items(when_local): the news item provider *)

\* items[:3], line 412
ItemsKept == 3

\* _fallback_items, lines 430-454: the three fixed items
FallbackItems ==
    <<[headline |-> <<"fallback", 1>>, url |-> <<"fallback", 1>>, filled |-> FALSE],
      [headline |-> <<"fallback", 2>>, url |-> <<"fallback", 2>>, filled |-> FALSE],
      [headline |-> <<"fallback", 3>>, url |-> <<"fallback", 3>>, filled |-> FALSE]>>

\* What the research call may give (lines 402-412): the request times out
\* or is answered with an error status; the body is not JSON, or lacks
\* choices[0].message.content; the content holds no {...} running to its
\* end, being prose (no_object) or JSON that is not an object (not_dict:
\* line 408 finds no match in it either); the {...} is not JSON; the object
\* has no "items", or "items" is null or a number (items_not_list), or a
\* string (items_text), or a list.
Answers ==
    {"timeout", "http_error", "not_json", "no_content", "no_object", "bad_json",
     "not_dict", "items_missing", "items_not_list", "items_text", "items"}

\* An item of the list: an object with every key; one with headline and url
\* only; one lacking headline; one lacking url; a number; a list that holds
\* the strings headline and url.
ItemKinds == {"full", "bare", "no_headline", "no_url", "number", "list_with_keys"}

\* the exception the try body raises on an answer, "none" if it raises none:
\* text the pattern of line 408 matches begins with "{", so json.loads
\* gives an object or raises; null and numbers cannot be sliced (line 412),
\* a string can, and none of its characters has the keys
AnswerRaises(answer) ==
    CASE answer = "timeout" -> "Timeout"
      [] answer = "http_error" -> "HTTPError"
      [] answer \in {"not_json", "bad_json"} -> "JSONDecodeError"
      [] answer = "no_content" -> "KeyError"
      [] answer = "items_not_list" -> "TypeError"
      [] OTHER -> "none"

\* lines 415-424 on one item: the exception the loop body raises on it
\* ("in" on a number, .get on a list), "none" if it raises none
ItemRaises(kind) ==
    CASE kind = "number" -> "TypeError"
      [] kind = "list_with_keys" -> "AttributeError"
      [] OTHER -> "none"

\* lines 415-424: the cleaned list from items i.. of the list kept; an item
\* lacking headline or url is passed over
RECURSIVE CleanedFrom(_, _)
CleanedFrom(kinds, i) ==
    IF i > Len(kinds) THEN <<>>
    ELSE (IF kinds[i] \in {"full", "bare"}
          THEN <<[headline |-> <<"item", i>>, url |-> <<"item", i>>,
                  filled |-> kinds[i] = "bare"]>>
          ELSE <<>>) \o CleanedFrom(kinds, i + 1)

\* the first exception the loop raises on the list kept, "none" if none
RECURSIVE LoopRaises(_, _)
LoopRaises(kinds, i) ==
    IF i > Len(kinds) THEN "none"
    ELSE IF ItemRaises(kinds[i]) # "none" THEN ItemRaises(kinds[i])
    ELSE LoopRaises(kinds, i + 1)

\* a faulty handler, for comparison: only the errors of the request are caught
CatchesRequestErrors(exc) == exc \in {"Timeout", "HTTPError"}

\* line 426: except Exception
Catches(exc) == TRUE

\* ai_research_items, lines 369-427, on what the research call gave
ai_research_items(key, answer, kinds) ==
    LET fallback == [raised |-> FALSE, items |-> FallbackItems]
        kept == Slice(kinds, ItemsKept)
        exc == IF AnswerRaises(answer) # "none" THEN AnswerRaises(answer)
               ELSE IF answer = "items" THEN LoopRaises(kept, 1)
               ELSE "none"
        cleaned == IF answer = "items" THEN CleanedFrom(kept, 1) ELSE <<>>
    IN IF ~key THEN fallback
       ELSE IF exc # "none"
            THEN (IF Catches(exc) THEN fallback ELSE [raised |-> TRUE, items |-> <<>>])
       ELSE IF answer \in {"no_object", "not_dict"} THEN fallback
       ELSE IF cleaned = <<>> THEN fallback
       ELSE [raised |-> FALSE, items |-> cleaned]

\* the function is called and returns or raises
Provide ==
    /\ research.pc = "called"
    /\ LET r == ai_research_items(research.key, research.answer, research.kinds)
       IN research' = [research EXCEPT !.pc = IF r.raised THEN "raised" ELSE "returned",
                                       !.raised = r.raised, !.items = r.items]
    /\ UNCHANGED <<cfg, now, store, proc, faultsLeft, calls, cardWrites, partial, ret,
                   loop, render>>

\* the item lists the research call may give
ItemLists == UNION {[1..n -> ItemKinds] : n \in 0..MaxItems}

InitItems ==
    /\ cfg = [token |-> TRUE, zone |-> "fixed", catchUp |-> FALSE,
              weekday |-> DefaultRunWeekday, hour |-> DefaultRunHour,
              minute |-> DefaultRunMinute]
    /\ now = 0
    /\ store = EmptyStore
    /\ proc = [p \in Callers |-> Idle]
    /\ faultsLeft = MaxFaults
    /\ calls = 0
    /\ cardWrites = [sl \in Slugs |-> 0]
    /\ partial = {}
    /\ ret = NoReturn
    /\ loop = NotStarted
    /\ render = NoRender
    /\ research \in {[NoResearch EXCEPT !.pc = "called", !.key = k, !.answer = a,
                                        !.kinds = ks] :
                        k \in BOOLEAN, a \in Answers,
                        ks \in ItemLists}

NextItems == Provide

SpecItems == InitItems /\ [][NextItems]_vars

\* C20: ai_research_items never raises; whatever the research call gave, it
\* returns at most 3 items: between 1 and 3 items cleaned from the first
\* three the call gave, in their order, or else the 3 fixed fallback items.
C20_ProviderNeverRaises ==
    research.pc \notin {"off", "called"} =>
        /\ research.pc = "returned" /\ ~research.raised
        /\ Len(research.items) \in 1..ItemsKept
        /\ \/ research.items = FallbackItems
           \/ /\ research.key /\ research.answer = "items"
              /\ \A i \in 1..Len(research.items) :
                   /\ research.items[i].headline[1] = "item"
                   /\ research.items[i].headline[2] \in 1..Min(ItemsKept, Len(research.kinds))
                   /\ research.kinds[research.items[i].headline[2]] \in {"full", "bare"}
                   /\ i > 1 => research.items[i - 1].headline[2] < research.items[i].headline[2]

\* the research call gave a list with a usable item and one the cleaning
\* loop fails on, and the fallback items were returned
C20_Witness ==
    /\ research.pc = "returned"
    /\ research.key /\ research.answer = "items"
    /\ \E i, j \in 1..Min(ItemsKept, Len(research.kinds)) :
         i < j /\ research.kinds[i] = "full" /\ research.kinds[j] = "number"
    /\ research.items = FallbackItems

-----------------------------------------------------------------------------
(* Further properties of the pipeline *)

\* C21: whenever no publish_once call is in progress and docs/feed.rss and
\* docs/feed.xml both exist, the two files hold the same bytes, also after
\* calls that failed at a store request.
C21_FeedsIdentical ==
    (Quiescent /\ store[FeedRss] # Absent /\ store[FeedXml] # Absent)
        => store[FeedRss] = store[FeedXml]

\* the commit step of commit_card_and_feed a call stands at: 1 the Card
\* write, 2 the Pointer write, 3 the prune, 4 the feed's rendering and the
\* feed.rss write, 5 the feed.xml write; 0 outside commit_card_and_feed
CommitRank(r) ==
    CASE r.phase = "card" -> 1
      [] r.phase = "latest" -> 2
      [] r.pc \in {"prune_list", "del_get", "del_del"} -> 3
      [] r.pc = "feed_fetch" \/ r.phase = "rss" -> 4
      [] r.phase = "xml" -> 5
      [] OTHER -> 0

\* the step recorded an error answer to the call's request
MetError(r, r2) == <<r2.err, r2.errAt>> # <<r.err, r.errAt>>

\* what a call that raised in commit_card_and_feed left in the store: the
\* effects of the steps before the one that failed, none of the steps after
C22_LeftBehind(r) ==
    LET at == r.errAt
        cardDone == at \in {"latest", "prune_list", "del_get", "del_del",
                            "feed_fetch", "rss", "xml"}
        latestDone == cardDone /\ at # "latest"
        prepared == at \in {"card", "latest", "prune_list", "del_get", "del_del",
                            "feed_fetch", "rss", "xml"}
    IN prepared =>
         /\ r.wroteCard = cardDone
         /\ cardDone => store[CardPath(r.slug)] # Absent
         /\ ~cardDone => store[CardPath(r.slug)] = Absent
         /\ latestDone => store[Latest] = store[CardPath(r.slug)]
         /\ ~latestDone => store[Latest] = Absent \/ store[Latest].slug # r.slug
         /\ FeedNames(FeedRss, r.slug) = (at = "xml")
         /\ ~FeedNames(FeedXml, r.slug)

\* one step of a call within commit_card_and_feed
C22_Step(p) ==
    LET r == proc[p]
        r2 == proc'[p]
    IN (calls' = calls /\ r2 # r) =>
         /\ (CommitRank(r) > 0 /\ CommitRank(r2) > 0)
                => CommitRank(r2) \in {CommitRank(r), CommitRank(r) + 1}
         /\ CommitRank(r2) > CommitRank(r) => ~MetError(r, r2)
         /\ (CommitRank(r) > 0 /\ MetError(r, r2))
                => r2.pc = "raised" /\ store' = store
         /\ (CommitRank(r) > 0 /\ r2.pc = "done") => CommitRank(r) = 5 /\ ~MetError(r, r2)
         /\ \A pth \in {FeedRss, FeedXml} :
              store'[pth] # store[pth] =>
                /\ r.phase = (IF pth = FeedRss THEN "rss" ELSE "xml")
                /\ r.wroteCard
                /\ store[CardPath(r.slug)] # Absent
                /\ store[Latest] = store[CardPath(r.slug)]
                /\ store'[pth].kind = "feed"
                /\ \E i \in 1..Len(store'[pth].entries) : store'[pth].entries[i].slug = r.slug

\* C22: the commit steps of a publish_once call go in the order Card write,
\* Pointer write, prune, feed.rss write, feed.xml write; the first step
\* that fails ends the call with the store unchanged by it, the effects of
\* the steps before it in the store and no later step made; a feed file is
\* written only by a call whose Card and Pointer writes succeeded, and names
\* that call's slug.
C22_CommitOrder ==
    /\ [](\A p \in Callers : proc[p].pc = "raised" => C22_LeftBehind(proc[p]))
    /\ [][\A p \in Callers : C22_Step(p)]_vars

\* a call failed at the feed.xml write after pruning an older card: the Card,
\* the Pointer and feed.rss of its slug are in the store
C22_Witness ==
    \E p \in Callers :
        /\ proc[p].pc = "raised"
        /\ proc[p].errAt = "xml"
        /\ proc[p].wroteCard
        /\ proc[p].pruned > 0
        /\ FeedNames(FeedRss, proc[p].slug)

\* both callers' publish_once calls have returned without raising, each
\* having written the Card of its own slug, and the slugs differ
BothPublished ==
    /\ \A p \in Callers : proc[p].pc = "done" /\ proc[p].wroteCard
    /\ proc["sched"].slug # proc["manual"].slug

\* C23: when two interleaved publish_once calls that computed different
\* slugs have both returned without error, docs/cards/ still holds a Card
\* and every slug the feed files name has its Card in the store.
C23_RaceKeepsCard ==
    BothPublished =>
        /\ CardsPresent # {}
        /\ \A pth \in {FeedRss, FeedXml} : \A s \in Slugs :
             FeedNames(pth, s) => store[CardPath(s)] # Absent

-----------------------------------------------------------------------------
(* The scheduler's retry near the end of an ISO week: the thread of        *)
(* scheduler_loop alone, started shortly before a run time configured by   *)
(* RUN_WEEKDAY, RUN_HOUR and RUN_MINUTE.                                   *)

\* the configured run times tried: the default, and Sunday 23:50 and 23:55
RetryRunTimes ==
    {<<DefaultRunWeekday, DefaultRunHour, DefaultRunMinute>>, <<6, 23, 50>>, <<6, 23, 55>>}

\* a run time of week 0 as a UTC instant
TargetOf(rt) ==
    WallToUtc("fixed", rt[1] * DayTicks + rt[2] * HourTicks + rt[3] * MinuteTicks)

InitRetry ==
    /\ \E rt \in RetryRunTimes :
         /\ cfg \in {[token |-> TRUE, zone |-> "fixed", catchUp |-> cu,
                      weekday |-> rt[1], hour |-> rt[2], minute |-> rt[3]] :
                        cu \in BOOLEAN}
         /\ now \in {TargetOf(rt) - 2 * SecTicks, TargetOf(rt) - SecTicks - 1}
    /\ store \in InitStores
    /\ proc = [p \in Callers |-> Idle]
    /\ faultsLeft = MaxFaults
    /\ calls = 0
    /\ cardWrites = [s \in Slugs |-> 0]
    /\ partial = {}
    /\ ret = NoReturn
    /\ loop = [NotStarted EXCEPT !.pc = "compute"]
    /\ render = NoRender
    /\ research = NoResearch

SpecRetry == InitRetry /\ [][NextLoop]_vars

\* C24: the publish_once call scheduler_loop makes 600 seconds after a
\* failed one derives the slug the failed call had derived, whatever the
\* configured run time.
C24_RetrySameSlug ==
    (loop.pc = "retry" /\ loop.failedSlugs # {} /\ SlugDerived(proc["sched"]))
        => proc["sched"].slug \in loop.failedSlugs

====
